---- MODULE Spec2Model ----
(***************************************************************************)
(* SMART-on-FHIR demo clients: the PKCE login of smart_auth.SmartAuth and  *)
(* of fhir_textual.SmartFHIRApp (loopback one-shot listener, token         *)
(* exchange, session fields) and the button handlers of the four Textual   *)
(* apps that drive it.  A process is one running app; the loopback port    *)
(* 127.0.0.1:8900 is shared by all processes of the host.                  *)
(***************************************************************************)
EXTENDS Integers, Sequences, FiniteSets, TLC

\* ------------------------------------------------------------------------
\* Bounds of the model
\* ------------------------------------------------------------------------
\* length of the long bearer / ID tokens the token endpoint may issue
LongLen == 10
\* length of the short bearer token the token endpoint may issue
ShortLen == 3

\* ------------------------------------------------------------------------
\* Values
\* ------------------------------------------------------------------------
\* Python None for a token-valued field (tokens are sequences of characters)
None == << >>
\* an absent query parameter / an absent string value
NoVal == "-"
\* no process (the port is free)
NoProc == "-"

Procs == {"p1", "p2"}

\* the four app classes of the repository
AppKinds == {"SmartFHIRDemo", "SmartFHIRDemoV2", "PatientPortal", "SmartFHIRApp"}

\* apps that log in through smart_auth.SmartAuth
UsesSmartAuth(a) == a \in {"SmartFHIRDemo", "SmartFHIRDemoV2", "PatientPortal"}

MakeTok(c, n) == [i \in 1..n |-> c]
TokA == MakeTok("a", LongLen)
TokB == MakeTok("b", ShortLen)
IdTok == MakeTok("j", LongLen)
\* compact JWTs header.payload.signature, one character per segment: the
\* payload "p" decodes to claims with a patient claim, "q" to claims
\* without one, and "x" is not base64url-encoded JSON
Jwt(payload) == <<"h", ".", payload, ".", "s">>
JwtPatient == Jwt("p")
JwtNoClaim == Jwt("q")
JwtBad == Jwt("x")
\* the value of the patient claim in the payload "p"
PatientV == <<"P", "1">>
AccessTokens == {TokA, TokB, JwtPatient, JwtNoClaim, JwtBad}
IdTokens == {IdTok}

\* path of REDIRECT_URI, and some other path a local client may request
RedirectPath == "/cb"
Paths == {RedirectPath, "/favicon.ico"}
Codes == {"c1"}
\* a code parameter present with a blank value (?code=)
BlankCode == ""
States == {"s1", "s2"}
Errors == {"access_denied"}

\* a GET request reaching the loopback listener: its path and query parameters
Requests ==
    [path : Paths, code : Codes \cup {BlankCode, NoVal}, state : States,
     error : Errors \cup {NoVal}]
NoReq == [path |-> NoVal, code |-> NoVal, state |-> NoVal, error |-> NoVal]

\* answers of the token endpoint as oauth.fetch_token sees them: "error" is a
\* non-success answer (fetch_token raises), "ok" a JSON body whose
\* access_token / id_token keys may be missing (None)
TokenResponses ==
    [kind : {"error"}, access_token : {None}, id_token : {None}]
    \cup [kind : {"ok"}, access_token : AccessTokens \cup {None},
          id_token : IdTokens \cup {None}]

\* no token request was made
NoAnswer == [kind |-> "none", access_token |-> None, id_token |-> None]

\* REDIRECT_URI
RedirectUri == "http://127.0.0.1:8900/cb"

\* PKCE code verifiers and their S256 challenges
Verifiers == {"v1", "v2"}
S256(v) == IF v = "v1" THEN "ch1" ELSE "ch2"

\* no token request was made
NoBody == [code |-> NoVal, code_verifier |-> NoVal, redirect_uri |-> NoVal]

\* answers of the FHIR server to a GET
FhirResponses == {"ok", "error"}

Session(t, i, r) == [token |-> t, id_token |-> i, patient_ref |-> r]
EmptySession == Session(None, None, None)

\* ------------------------------------------------------------------------
\* State
\* ------------------------------------------------------------------------
VARIABLES
    app,            \* the app class the processes run
    pc,             \* per process: position of its login handler
    auth,           \* per process: the app holds a SmartAuth object (self.auth)
    token,          \* per process: self.auth.token (SmartFHIRApp: self.token)
    id_token,       \* per process: self.auth.id_token
    patient_ref,    \* per process: self.auth.patient_ref
    patient_id,     \* per process: PatientPortal.patient_id
    status,         \* per process: text of the #status label
    logoutDisabled, \* per process: the Logout button is disabled
    hasRows,        \* per process: the patient table has rows
    oauth,          \* per process: state issued with the authorization URL
    challenge,      \* per process: code_challenge of its last authorization URL
    posts,          \* per process: token requests made by the current attempt
    srv,            \* per process: the request that set srv.code
    pre,            \* per process: session fields when the attempt started
    port,           \* the process whose listener is bound to the port
    last,           \* the step just taken: who, what, with which outcome
    body,           \* the token request sent by the step just taken
    answer,         \* the token endpoint's answer to the step just taken
    emitted         \* token-bearing log records written by the step just taken

vars == <<app, pc, auth, token, id_token, patient_ref, patient_id, status,
          logoutDisabled, hasRows, oauth, challenge, posts, srv, pre, port,
          last, body, answer, emitted>>

ui == <<status, logoutDisabled, hasRows, patient_id>>
sess == <<auth, token, id_token, patient_ref>>

SessionOf(p) == Session(token[p], id_token[p], patient_ref[p])

\* the record of one step: the acting process, the operation, how it ended,
\* the request involved, the HTTP status answered, the state value issued
\* for the attempt, and the session fields before the button press (pre) and
\* when SmartAuth.login / smart_login was entered (atCall)
Event(p, op, outcome, req, st, issued, before, called) ==
    [proc |-> p, op |-> op, outcome |-> outcome, req |-> req, status |-> st,
     issued |-> issued, pre |-> before, atCall |-> called]

LogRec(site, text) == [site |-> site, text |-> text]

\* ------------------------------------------------------------------------
\* smart_auth.py helpers
\* ------------------------------------------------------------------------
MaskLen == 8

Min(a, b) == IF a < b THEN a ELSE b

\* SmartAuth._mask: tok[:n] + "…" if tok else "<none>"
_mask(tok) ==
    IF tok # None
    THEN SubSeq(tok, 1, Min(MaskLen, Len(tok))) \o <<"...">>
    ELSE <<"<none>">>

\* do_GET with parse_qs(..., keep_blank_values=True): a blank code is stored
do_GET_keep_blank(req) == [status |-> 200, code |-> req.code]

\* _CodeHandler.do_GET / CodeHandler.do_GET: answers 200 whatever the path
\* and stores params.get("code") on the server; parse_qs drops a parameter
\* whose value is blank, so ?code= stores None like an absent code
do_GET(req) ==
    [status |-> 200,
     code |-> IF req.code = BlankCode THEN NoVal ELSE req.code]

\* token.split("."): the separators of a token and its number of segments
Dots(tok) == {i \in 1..Len(tok) : tok[i] = "."}
IsThreeSegments(tok) == Cardinality(Dots(tok)) = 2

\* parts[1] of a token of three segments
Payload(tok) ==
    LET a == CHOOSE i \in Dots(tok) : \A j \in Dots(tok) : i <= j
        b == CHOOSE i \in Dots(tok) : \A j \in Dots(tok) : j <= i
    IN SubSeq(tok, a + 1, b - 1)

\* json.loads(base64.urlsafe_b64decode(payload + "==")) succeeds
Decodable(payload) == payload \in {<<"p">>, <<"q">>}

\* claims.get("patient") of a decoded payload
PatientOf(payload) == IF payload = <<"p">> THEN PatientV ELSE None

\* the patient claim a token carries, None when it carries none
PatientClaimOf(tok) ==
    IF tok # None /\ IsThreeSegments(tok) /\ Decodable(Payload(tok))
    THEN PatientOf(Payload(tok))
    ELSE None

\* an exception leaving a method, where a value is expected
Raised == <<"raise">>

\* _extract_patient with jwt imported and without its try / except: a token
\* that is no JWT, or whose payload does not decode, raises
_extract_patient_unguarded(tok) ==
    IF tok = None THEN None
    ELSE IF ~IsThreeSegments(tok) THEN Raised
    ELSE IF ~Decodable(Payload(tok)) THEN Raised
    ELSE PatientOf(Payload(tok))

\* SmartAuth._extract_patient: the name jwt is not bound in smart_auth.py
\* (its import is commented out), so with a token the lookup raises
\* NameError inside the try, which the except turns into None; without a
\* token the method falls through and returns None
_extract_patient(tok) == None

\* OAuth2Session.create_authorization_url(url, state=None,
\* code_verifier=None, **kwargs) of the session built with
\* redirect_uri=REDIRECT_URI and code_challenge_method="S256": a state is
\* generated, and a code_challenge is derived from the code_verifier the
\* caller passes, none being put into the URL when none is passed
create_authorization_url(st, code_verifier) ==
    [state |-> st, redirect_uri |-> RedirectUri,
     code_challenge |->
         IF code_verifier = NoVal THEN NoVal ELSE S256(code_verifier)]

\* oauth.fetch_token(url, code=code, client_secret=..., [redirect_uri=...]):
\* the form body carries the keyword arguments given, and the session's
\* redirect_uri when none is given; neither login passes a code_verifier
fetch_token(code, redirect_uri) ==
    [code |-> code, code_verifier |-> NoVal,
     redirect_uri |->
         IF redirect_uri = NoVal THEN RedirectUri ELSE redirect_uri]

\* the redirect_uri keyword of the fetch_token call: SmartAuth.login passes
\* REDIRECT_URI (line 125), smart_login passes none
RedirectArg == IF UsesSmartAuth(app) THEN RedirectUri ELSE NoVal

\* SmartAuth.__init__
InitStatus(a) ==
    CASE a = "SmartFHIRDemo" -> "Logged Out"
      [] a = "SmartFHIRDemoV2" -> "Logged Out"
      [] a = "PatientPortal" -> "Logged out"
      [] OTHER -> NoVal

Init ==
    /\ app \in AppKinds
    /\ pc = [p \in Procs |-> "idle"]
    /\ auth = [p \in Procs |-> FALSE]
    /\ token = [p \in Procs |-> None]
    /\ id_token = [p \in Procs |-> None]
    /\ patient_ref = [p \in Procs |-> None]
    /\ patient_id = [p \in Procs |-> None]
    /\ status = [p \in Procs |-> InitStatus(app)]
    /\ logoutDisabled = [p \in Procs |-> app = "PatientPortal"]
    /\ hasRows = [p \in Procs |-> FALSE]
    /\ oauth = [p \in Procs |-> NoVal]
    /\ challenge = [p \in Procs |-> NoVal]
    /\ posts = [p \in Procs |-> 0]
    /\ srv = [p \in Procs |-> NoReq]
    /\ pre = [p \in Procs |-> EmptySession]
    /\ port = NoProc
    /\ last = Event(NoProc, "init", NoVal, NoReq, 0, NoVal, EmptySession,
                    EmptySession)
    /\ body = NoBody
    /\ answer = NoAnswer
    /\ emitted = {}

\* ------------------------------------------------------------------------
\* Login, step 1: the Login button is pressed; the handler builds the
\* OAuth2Session and the authorization URL and opens the browser
\* ------------------------------------------------------------------------
\* (SmartFHIRApp.smart_login first rewrites its run-log file; the log is
\* kept here only as the records of the step just taken, see emitted)
\* PatientPortal._handle_login returns at once when a token is held
AlreadyLoggedIn(p) == app = "PatientPortal" /\ auth[p] /\ token[p] # None

\* the session object the handler works on when login() is entered: the
\* SmartAuth apps replace self.auth by a fresh SmartAuth(), SmartFHIRApp
\* keeps its own token attribute
SessionAtCall(p) == IF UsesSmartAuth(app) THEN EmptySession ELSE SessionOf(p)

\* the same, seen from a later step of the attempt
AtCall(p) == IF UsesSmartAuth(app) THEN EmptySession ELSE pre[p]

PressLogin(p) ==
    /\ pc[p] = "idle"
    /\ emitted' = {}
    /\ answer' = NoAnswer
    /\ body' = NoBody
    /\ IF AlreadyLoggedIn(p)
       THEN /\ last' = Event(p, "login", "already", NoReq, 0, NoVal,
                             SessionOf(p), SessionOf(p))
            /\ UNCHANGED <<app, pc, sess, ui, oauth, challenge, posts, srv,
                           pre, port>>
       ELSE /\ \E s \in States :
                 LET url == create_authorization_url(s, NoVal) IN
                 /\ oauth' = [oauth EXCEPT ![p] = url.state]
                 /\ challenge' =
                        [challenge EXCEPT ![p] = url.code_challenge]
            /\ posts' = [posts EXCEPT ![p] = 0]
            /\ pc' = [pc EXCEPT ![p] = "opened"]
            /\ pre' = [pre EXCEPT ![p] = SessionOf(p)]
            /\ auth' = [auth EXCEPT ![p] = UsesSmartAuth(app)]
            /\ token' = [token EXCEPT ![p] = SessionAtCall(p).token]
            /\ id_token' = [id_token EXCEPT ![p] = SessionAtCall(p).id_token]
            /\ patient_ref' =
                   [patient_ref EXCEPT ![p] = SessionAtCall(p).patient_ref]
            /\ srv' = [srv EXCEPT ![p] = NoReq]
            /\ last' = Event(p, "login_start", NoVal, NoReq, 0, oauth'[p],
                             SessionOf(p), SessionAtCall(p))
            /\ UNCHANGED <<app, ui, port>>

\* a handler that leaves the status label as it is when login() raised
StatusAfterRaise_kept(p) == status[p]

\* how each app's handler leaves a login() that raised: the status label it
\* shows and whether the handler returns (SmartFHIRApp does not catch: the
\* exception ends the app)
StatusAfterRaise(p) ==
    CASE app = "SmartFHIRDemo" -> "Logged Out"
      [] app = "SmartFHIRDemoV2" -> "Login Failed"
      [] OTHER -> status[p]

PcAfterRaise == IF app = "SmartFHIRApp" THEN "crashed" ELSE "idle"

\* the attempt of p ends by an exception of kind outcome
LoginRaised(p, outcome) ==
    /\ pc' = [pc EXCEPT ![p] = PcAfterRaise]
    /\ status' = [status EXCEPT ![p] = StatusAfterRaise(p)]
    /\ oauth' = [oauth EXCEPT ![p] = NoVal]
    /\ srv' = [srv EXCEPT ![p] = NoReq]
    /\ pre' = [pre EXCEPT ![p] = EmptySession]
    /\ last' = Event(p, "login", outcome, srv[p], 0, oauth[p], pre[p],
                     AtCall(p))
    /\ UNCHANGED <<app, auth, patient_ref, logoutDisabled, hasRows,
                   patient_id, challenge>>

\* ------------------------------------------------------------------------
\* Login, step 2: the one-shot server is constructed, which binds the port
\* ------------------------------------------------------------------------
\* _OneShotTCPServer((host, port), handler): the constructor binds and
\* listens; with a listener already bound to the address the bind raises
\* OSError (allow_reuse_address only lets a port in TIME_WAIT be rebound)
_OneShotTCPServer(owner) == owner = NoProc

Bind(p) ==
    /\ pc[p] = "opened"
    /\ emitted' = {}
    /\ answer' = NoAnswer
    /\ body' = NoBody
    /\ IF _OneShotTCPServer(port)
       THEN /\ port' = p
            /\ pc' = [pc EXCEPT ![p] = "waiting"]
            /\ last' = Event(p, "bind", "bound", NoReq, 0, oauth[p], pre[p],
                             AtCall(p))
            /\ UNCHANGED <<app, sess, ui, oauth, challenge, posts, srv, pre>>
       ELSE /\ LoginRaised(p, "PortUnavailable")
            /\ UNCHANGED <<token, id_token, posts, port>>

\* Between webbrowser.open (smart_auth.py line 107, fhir_textual.py line 113)
\* and the server constructor no socket of this attempt exists: a redirect
\* the browser makes to the loopback address while no process listens there
\* is refused by the host and reaches no handler
RedirectRefused(p, req) ==
    /\ pc[p] = "opened"
    /\ port = NoProc
    /\ emitted' = {}
    /\ answer' = NoAnswer
    /\ body' = NoBody
    /\ last' = Event(p, "redirect", "refused", req, 0, oauth[p], pre[p],
                     AtCall(p))
    /\ UNCHANGED <<app, pc, sess, ui, oauth, challenge, posts, srv, pre, port>>

\* ------------------------------------------------------------------------
\* Login, step 3: while srv.code is None: srv.handle_request()
\* ------------------------------------------------------------------------
\* a login that leaves the wait loop without closing the server
server_close_leak(p) == p

\* leaving `with _OneShotTCPServer(...) as srv:` calls srv.server_close():
\* the socket of p's listener is closed and the port is free
server_close(p) == NoProc

HandleRequest(p, req) ==
    /\ pc[p] = "waiting"
    /\ port = p
    /\ emitted' = {}
    /\ answer' = NoAnswer
    /\ body' = NoBody
    /\ LET r == do_GET(req) IN
       /\ last' = Event(p, "request",
                        IF r.code = NoVal THEN "waiting" ELSE "code",
                        req, r.status, oauth[p], pre[p], AtCall(p))
       /\ IF r.code = NoVal
          THEN UNCHANGED <<pc, srv, port>>
          ELSE /\ srv' = [srv EXCEPT ![p] = req]
               /\ port' = server_close(p)
               /\ pc' = [pc EXCEPT ![p] = "exchange"]
    /\ UNCHANGED <<app, sess, ui, oauth, challenge, posts, pre>>

\* ------------------------------------------------------------------------
\* Login, step 4: the token exchange and what the handler does with it
\* ------------------------------------------------------------------------
\* SmartAuth.login lines 120-134 / smart_login lines 126-132: fetch_token
\* raises on a non-success answer, token_dict["access_token"] raises
\* KeyError when the key is missing
login_raises(resp) == resp.kind = "error" \/ resp.access_token = None

ExchangeOutcome(resp) ==
    IF resp.kind = "error" THEN "ExchangeFailed"
    ELSE IF resp.access_token = None THEN "NoAccessToken"
    ELSE "ok"

\* lines 128-129 in the other order: the id_token is stored before the
\* access_token lookup raises
login_assign_id_first(s, resp) ==
    IF resp.kind = "error" THEN s
    ELSE IF resp.access_token = None
    THEN [s EXCEPT !.id_token = resp.id_token]
    ELSE [s EXCEPT !.token = resp.access_token, !.id_token = resp.id_token]

\* the session fields after lines 128-129 (self.token = ...["access_token"],
\* then self.id_token = ....get("id_token")): nothing is assigned when
\* fetch_token or the access_token lookup raised
login_assign(s, resp) ==
    IF login_raises(resp) THEN s
    ELSE [s EXCEPT !.token = resp.access_token, !.id_token = resp.id_token]

\* smart_login line 132: SmartFHIRApp keeps the access token only
smart_login_assign(s, resp) ==
    IF login_raises(resp) THEN s
    ELSE [s EXCEPT !.token = resp.access_token]

\* the token-bearing log records of SmartAuth.login lines 130-131: the full
\* token response (json.dumps(token_dict)) and the masked access token
login_log(resp) ==
    {LogRec("login.token_response", resp.access_token),
     LogRec("login.masked", _mask(resp.access_token))}
    \cup (IF resp.id_token = None THEN {}
          ELSE {LogRec("login.token_response", resp.id_token)})

\* smart_login lines 136-137: dual_log(log, self.token)
smart_login_log(resp) == {LogRec("smart_login.raw", resp.access_token)}

\* PatientPortal._handle_login lines 91-111, after login() returned; line
\* 91 is outside the handler's try, so an exception of _extract_patient
\* would leave the handler and end the app
PortalAfterLogin(p, fhir) ==
    LET ref == _extract_patient(token'[p]) IN
    IF ref = Raised
    THEN /\ pc' = [pc EXCEPT ![p] = "crashed"]
         /\ UNCHANGED <<patient_ref, ui>>
    ELSE
    /\ patient_ref' = [patient_ref EXCEPT ![p] = ref]
    /\ IF ref = None
       THEN /\ pc' = [pc EXCEPT ![p] = "idle"]
            /\ UNCHANGED ui
       ELSE /\ patient_id' = [patient_id EXCEPT ![p] = ref]
            /\ logoutDisabled' = [logoutDisabled EXCEPT ![p] = FALSE]
            /\ status' = [status EXCEPT ![p] = "Logged in - Patient"]
            /\ hasRows' = [hasRows EXCEPT ![p] = fhir = "ok"]
            /\ pc' = [pc EXCEPT ![p] =
                         IF fhir = "error" THEN "crashed" ELSE "idle"]

\* what each handler does after the exchange succeeded
AfterLogin(p, fhir) ==
    CASE app = "SmartFHIRDemo" ->
           /\ status' = [status EXCEPT ![p] = "Logged In"]
           /\ pc' = [pc EXCEPT ![p] = "idle"]
           /\ UNCHANGED <<patient_ref, logoutDisabled, hasRows, patient_id>>
      [] app = "SmartFHIRDemoV2" ->
           /\ status' = [status EXCEPT ![p] = "Logged In"]
           /\ pc' = [pc EXCEPT ![p] = "idle"]
           /\ UNCHANGED <<patient_ref, logoutDisabled, hasRows, patient_id>>
      [] app = "PatientPortal" -> PortalAfterLogin(p, fhir)
      [] OTHER ->
           \* SmartFHIRApp.fetch_patient: raise_for_status is not caught
           /\ pc' = [pc EXCEPT ![p] =
                        IF fhir = "error" THEN "crashed" ELSE "idle"]
           /\ UNCHANGED <<patient_ref, ui>>

Exchange(p, resp, fhir) ==
    /\ pc[p] = "exchange"
    /\ answer' = resp
    /\ body' = fetch_token(srv[p].code, RedirectArg)
    /\ posts' = [posts EXCEPT ![p] = @ + 1]
    /\ LET s == IF UsesSmartAuth(app)
                THEN login_assign(SessionOf(p), resp)
                ELSE smart_login_assign(SessionOf(p), resp) IN
       /\ token' = [token EXCEPT ![p] = s.token]
       /\ id_token' = [id_token EXCEPT ![p] = s.id_token]
    /\ IF login_raises(resp)
       THEN /\ LoginRaised(p, ExchangeOutcome(resp))
            /\ emitted' = {}
            /\ UNCHANGED port
       ELSE /\ emitted' = IF UsesSmartAuth(app) THEN login_log(resp)
                          ELSE smart_login_log(resp)
            /\ AfterLogin(p, fhir)
            /\ oauth' = [oauth EXCEPT ![p] = NoVal]
            /\ srv' = [srv EXCEPT ![p] = NoReq]
            /\ pre' = [pre EXCEPT ![p] = EmptySession]
            /\ last' = Event(p, "login", "ok", srv[p], 0, oauth[p], pre[p],
                             AtCall(p))
            /\ UNCHANGED <<app, auth, challenge, port>>

\* ------------------------------------------------------------------------
\* Logout button
\* ------------------------------------------------------------------------
\* a logout that clears the bearer token only
logout_token_only(s) == [s EXCEPT !.token = None]

\* SmartAuth.logout: clears token, id_token and patient_ref
logout(s) == EmptySession

\* SmartFHIRApp.smart_logout: self.token = None
smart_logout(s) == [s EXCEPT !.token = None]

\* the Logout button can be pressed (PatientPortal composes it disabled)
LogoutEnabled(p) == ~logoutDisabled[p]

\* the handler calls the logout method: SmartFHIRDemo only with a token
\* held, SmartFHIRDemoV2 and PatientPortal whenever self.auth is set,
\* SmartFHIRApp always
CallsLogout(p) ==
    CASE app = "SmartFHIRDemo" -> auth[p] /\ token[p] # None
      [] app = "SmartFHIRDemoV2" -> auth[p]
      [] app = "PatientPortal" -> auth[p]
      [] OTHER -> TRUE

SessionAfterLogout(p) ==
    IF ~CallsLogout(p) THEN SessionOf(p)
    ELSE IF UsesSmartAuth(app) THEN logout(SessionOf(p))
    ELSE smart_logout(SessionOf(p))

PressLogout(p) ==
    /\ pc[p] = "idle"
    /\ LogoutEnabled(p)
    /\ emitted' = {}
    /\ answer' = NoAnswer
    /\ body' = NoBody
    /\ LET s == SessionAfterLogout(p) IN
       /\ token' = [token EXCEPT ![p] = s.token]
       /\ id_token' = [id_token EXCEPT ![p] = s.id_token]
       /\ patient_ref' = [patient_ref EXCEPT ![p] = s.patient_ref]
    /\ last' = Event(p, "logout",
                     IF CallsLogout(p) THEN "logged_out" ELSE "already",
                     NoReq, 0, NoVal, SessionOf(p), SessionOf(p))
    /\ CASE app = "SmartFHIRDemo" ->
              /\ status' = [status EXCEPT ![p] =
                               IF CallsLogout(p) THEN "Logged Out" ELSE @]
              /\ UNCHANGED <<auth, logoutDisabled, hasRows, patient_id>>
         [] app = "SmartFHIRDemoV2" ->
              /\ auth' = [auth EXCEPT ![p] = FALSE]
              /\ status' = [status EXCEPT ![p] = "Logged Out"]
              /\ UNCHANGED <<logoutDisabled, hasRows, patient_id>>
         [] app = "PatientPortal" ->
              /\ patient_id' = [patient_id EXCEPT ![p] = None]
              /\ logoutDisabled' = [logoutDisabled EXCEPT ![p] = TRUE]
              /\ status' = [status EXCEPT ![p] = "Logged out"]
              /\ hasRows' = [hasRows EXCEPT ![p] = FALSE]
              /\ UNCHANGED auth
         [] OTHER -> UNCHANGED <<auth, ui>>
    /\ UNCHANGED <<app, pc, oauth, challenge, posts, srv, pre, port>>

\* ------------------------------------------------------------------------
\* Patients button (SmartFHIRDemo, SmartFHIRDemoV2)
\* ------------------------------------------------------------------------
\* textual_app.py line 112 / SmartFHIRDemoV2._require_auth
_require_auth(p) == auth[p] /\ token[p] # None

\* fhir_client.search_patients line 39: logger.info("... (masked): %s", token)
search_patients_log(tok) == {LogRec("search_patients", tok)}

HasPatientsButton == app \in {"SmartFHIRDemo", "SmartFHIRDemoV2"}

PressPatients(p, fhir) ==
    /\ HasPatientsButton
    /\ pc[p] = "idle"
    /\ answer' = NoAnswer
    /\ body' = NoBody
    /\ IF ~_require_auth(p)
       THEN /\ emitted' = {}
            /\ last' = Event(p, "patients", "login_first", NoReq, 0, NoVal,
                             SessionOf(p), SessionOf(p))
            /\ UNCHANGED hasRows
       ELSE /\ emitted' = search_patients_log(token[p])
            /\ last' = Event(p, "patients", fhir, NoReq, 0, NoVal,
                             SessionOf(p), SessionOf(p))
            /\ hasRows' = [hasRows EXCEPT ![p] =
                              IF fhir = "ok" THEN TRUE
                              ELSE IF app = "SmartFHIRDemoV2" THEN FALSE
                              ELSE @]
    /\ UNCHANGED <<app, pc, sess, status, logoutDisabled, patient_id, oauth,
                   challenge, posts, srv, pre, port>>

\* ------------------------------------------------------------------------
\* Observations button (SmartFHIRDemoV2)
\* ------------------------------------------------------------------------
\* fhir_client.observations_for_patient line 66: logs the bearer token
observations_for_patient_log(tok) == {LogRec("observations_for_patient", tok)}

\* what patient_table.cursor_row / get_row_at find: with rows the cursor is
\* on a row; on an empty table the cursor is either None or an index for
\* which get_row_at raises
Cursors(p) == IF hasRows[p] THEN {"row"} ELSE {"none", "invalid"}

\* on_button_pressed, observations_btn: the arguments of
\* _load_observations_for_patient(patient_id, self.auth.token) are
\* evaluated before the call, so without an auth object the attribute
\* lookup raises before _require_auth is reached, and nothing in the
\* handler catches it
ObservationsOutcome(p, cur, fhir) ==
    CASE cur = "none" -> "select_first"
      [] cur = "invalid" -> "RowDoesNotExist"
      [] cur = "row" /\ ~auth[p] -> "AttributeError"
      [] cur = "row" /\ auth[p] /\ ~_require_auth(p) -> "login_first"
      [] OTHER -> fhir

PressObservations(p, fhir, cur) ==
    /\ app = "SmartFHIRDemoV2"
    /\ pc[p] = "idle"
    /\ cur \in Cursors(p)
    /\ answer' = NoAnswer
    /\ body' = NoBody
    /\ LET outcome == ObservationsOutcome(p, cur, fhir) IN
       /\ last' = Event(p, "observations", outcome, NoReq, 0, NoVal,
                        SessionOf(p), SessionOf(p))
       /\ emitted' = IF outcome \in FhirResponses
                     THEN observations_for_patient_log(token[p])
                     ELSE {}
       /\ pc' = [pc EXCEPT ![p] =
                    IF outcome \in {"RowDoesNotExist", "AttributeError"}
                    THEN "crashed" ELSE "idle"]
    /\ UNCHANGED <<app, sess, ui, oauth, challenge, posts, srv, pre, port>>

\* ------------------------------------------------------------------------
\* Specifications
\* ------------------------------------------------------------------------
\* One app process on the host, with every input.
Next ==
    \E p \in {"p1"} :
        \/ PressLogin(p)
        \/ Bind(p)
        \/ \E req \in Requests : RedirectRefused(p, req)
        \/ \E req \in Requests : HandleRequest(p, req)
        \/ \E resp \in TokenResponses, fhir \in FhirResponses :
              Exchange(p, resp, fhir)
        \/ PressLogout(p)
        \/ \E fhir \in FhirResponses : PressPatients(p, fhir)
        \/ \E fhir \in FhirResponses, cur \in {"row", "none", "invalid"} :
              PressObservations(p, fhir, cur)

Spec == Init /\ [][Next]_vars

\* Two app processes on the same host, competing for the loopback port.  The
\* redirect requests and the token answers are drawn from smaller sets: one
\* request with a code and one without, a failing and a succeeding answer.
ConcRequests ==
    {r \in Requests :
        r.path = RedirectPath /\ r.error = NoVal /\ r.state = "s1"}
ConcResponses ==
    {r \in TokenResponses :
        r.access_token \in {None, TokA} /\ r.id_token = None}

NextConc ==
    \E p \in Procs :
        \/ PressLogin(p)
        \/ Bind(p)
        \/ \E req \in ConcRequests : RedirectRefused(p, req)
        \/ \E req \in ConcRequests : HandleRequest(p, req)
        \/ \E resp \in ConcResponses : Exchange(p, resp, "ok")
        \/ PressLogout(p)
        \/ PressPatients(p, "ok")
        \/ \E cur \in {"row", "none", "invalid"} :
              PressObservations(p, "ok", cur)

ConcSpec == Init /\ [][NextConc]_vars

\* Spec with the fairness the handler's own control flow gives: once the
\* browser is opened the handler goes on to construct the server, and once
\* a code is captured it goes on to the token request, which is answered.
\* Button presses and redirect requests are the environment's and get none.
FairSpec ==
    /\ Spec
    /\ WF_vars(Bind("p1"))
    /\ WF_vars(\E resp \in TokenResponses, fhir \in FhirResponses :
                  Exchange("p1", resp, fhir))

\* ------------------------------------------------------------------------
\* Vocabulary of the properties
\* ------------------------------------------------------------------------
\* the step just taken ended a login attempt of its process by a failure
FailureOutcomes == {"PortUnavailable", "ExchangeFailed", "NoAccessToken"}
LoginFailed == last.op = "login" /\ last.outcome \in FailureOutcomes

\* the step just taken sent a code to the token endpoint
ExchangeSent == answer # NoAnswer

\* the step just taken was a request handled by the listener of last.proc
RequestHandled == last.op = "request"

\* the listener of p is bound and waiting
Listening(p) == pc[p] = "waiting"

\* a logged text is a masked token: at most MaskLen characters and then
\* the truncation mark
IsMasked(text) ==
    /\ Len(text) >= 1
    /\ Len(text) <= MaskLen + 1
    /\ text[Len(text)] = "..."

\* ------------------------------------------------------------------------
\* Properties
\* ------------------------------------------------------------------------
\* C1: after a login attempt that failed (bind failure, token-endpoint
\* failure, token response without access_token) the session fields the
\* display/query path reads are what they were before the Login press.
C1_FailedLoginKeepsSession ==
    LoginFailed => SessionOf(last.proc) = last.pre

\* C2: a code is sent to the token endpoint only when the state carried by
\* the redirect that supplied it equals the state issued for the attempt.
C2_StateVerified ==
    ExchangeSent => last.req.state = last.issued

\* C3: after a request on the redirect path, with or without a code, the
\* listener has stopped waiting and its socket is closed.
C3_ListenerOneShot ==
    RequestHandled /\ last.req.path = RedirectPath
        => ~Listening(last.proc) /\ port # last.proc

\* C4: once the listener is bound, the wait ends (Timeout) unless a request
\* on the redirect path arrives.
C4_WaitEnds ==
    \A p \in Procs :
        (last.op = "bind" /\ last.proc = p)
            ~> (\/ ~Listening(p)
                \/ (RequestHandled /\ last.proc = p
                        /\ last.req.path = RedirectPath))

\* C5: a redirect that carries error instead of a code ends the attempt
\* with ProviderError, and no token exchange is made for it.
C5_ProviderErrorSurfaced ==
    RequestHandled /\ last.req.path = RedirectPath
            /\ last.req.code = NoVal /\ last.req.error # NoVal
        => /\ last.outcome = "ProviderError"
           /\ pc[last.proc] = "idle"

\* C6: a request on another path than the redirect path is answered 404,
\* does not end the wait, and never supplies the code that is exchanged.
C6_OtherPathsIgnored ==
    /\ RequestHandled /\ last.req.path # RedirectPath
          => last.status = 404 /\ Listening(last.proc)
    /\ ExchangeSent => last.req.path = RedirectPath

\* C7: when the token endpoint answers with a failure, or with a body
\* without access_token, SmartAuth.login() fails and the instance's token,
\* id_token and patient_ref are what they were when login() was called.
C7_ExchangeFailureKeepsFields ==
    UsesSmartAuth(app) /\ ExchangeSent
            /\ (answer.kind = "error" \/ answer.access_token = None)
        => /\ LoginFailed
           /\ SessionOf(last.proc) = last.atCall

\* a failed exchange after the instance was given a body with an id_token
C7_Witness ==
    /\ UsesSmartAuth(app)
    /\ answer.kind = "ok" /\ answer.access_token = None
    /\ answer.id_token # None
    /\ last.outcome = "NoAccessToken"

\* The two step properties of C8.
\* C8: the token is empty at start, a process's token becomes set only by
\* its login whose exchange succeeded, and after a logout the token,
\* id_token and patient_ref are all empty.
TokenSetOnlyByLogin(p) ==
    (token[p] = None /\ token'[p] # None)
        => (/\ last'.proc = p /\ last'.op = "login"
            /\ last'.outcome = "ok"
            /\ answer'.kind = "ok"
            /\ token'[p] = answer'.access_token)

LogoutClears ==
    (last'.op = "logout")
        => (/\ token'[last'.proc] = None
            /\ id_token'[last'.proc] = None
            /\ patient_ref'[last'.proc] = None)

C8_SessionLifecycle ==
    /\ \A p \in Procs : ~auth[p] /\ SessionOf(p) = EmptySession
    /\ [][(\A p \in Procs : TokenSetOnlyByLogin(p)) /\ LogoutClears]_vars

\* a logout of a session that held a token and an ID token
C8_Witness ==
    /\ last.op = "logout"
    /\ last.pre.token # None /\ last.pre.id_token # None
    /\ token[last.proc] = None

\* C9: every token text written to a log is masked.
C9_LogsMasked ==
    \A r \in emitted : IsMasked(r.text)

\* the step just taken was a bind that failed: the attempt of last.proc
\* ended with PortUnavailable
BindFailed == last.op = "login" /\ last.outcome = "PortUnavailable"

\* At most one process is listening on the loopback port, and a bind that
\* failed left the other process's listener bound and the fields of the
\* attempt's own SmartAuth as they were when login() was entered.
OneListener ==
    /\ Cardinality({p \in Procs : Listening(p)}) <= 1
    /\ \A p \in Procs : Listening(p) <=> port = p
    /\ BindFailed
          => /\ \E q \in Procs \ {last.proc} : Listening(q) /\ port = q
             /\ ~Listening(last.proc)
             /\ SessionOf(last.proc) = last.atCall

\* C10: at most one login attempt holds the loopback port; an attempt made
\* while another listener is bound fails at once with PortUnavailable,
\* leaves that listener bound, and leaves the session as it was before the
\* attempt.
C10_SecondAttemptFailsFast ==
    /\ Cardinality({p \in Procs : Listening(p)}) <= 1
    /\ BindFailed
          => /\ \E q \in Procs \ {last.proc} : Listening(q) /\ port = q
             /\ ~Listening(last.proc)
             /\ SessionOf(last.proc) = last.pre

\* the browser of p's attempt is open and its redirect has not been captured
BrowserOpened(p) == pc[p] \in {"opened", "waiting"}

\* C11: whenever the browser has been opened for an attempt, the attempt's
\* listener is bound, and no redirect arrives while no listener is bound.
C11_ListenerBeforeBrowser ==
    /\ \A p \in Procs : BrowserOpened(p) => port = p
    /\ ~(last.op = "redirect" /\ last.outcome = "refused")

\* C12: an attempt makes at most one token request; the request carries the
\* non-empty code its listener captured in that attempt; and after the
\* request, failed or not, the attempt has left the exchange and holds no
\* code to send again.
C12_OneExchangePerCode ==
    /\ \A p \in Procs :
          /\ posts[p] <= 1
          /\ pc[p] = "exchange" => posts[p] = 0 /\ srv[p].code \in Codes
    /\ ExchangeSent
          => /\ last.req.code \in Codes
             /\ pc[last.proc] # "exchange"
             /\ srv[last.proc] = NoReq

\* a token request that failed and was the only one of its attempt
C12_Witness ==
    /\ ExchangeSent /\ answer.kind = "error"
    /\ posts[last.proc] = 1
    /\ last.req.code \in Codes

\* the step just taken was a login that succeeded
LoginSucceeded == last.op = "login" /\ last.outcome = "ok"

\* C13: after a successful login whose access token T carries a patient
\* claim of value V, the session has token = T and patient_ref = V.
C13_LoginSetsPatientRef ==
    LoginSucceeded /\ UsesSmartAuth(app)
            /\ PatientClaimOf(answer.access_token) # None
        => /\ token[last.proc] = answer.access_token
           /\ patient_ref[last.proc] = PatientClaimOf(answer.access_token)

\* C14: after a successful login with a token that is not three segments,
\* whose payload cannot be decoded, or that has no patient claim, the
\* patient reference is none, the handler has returned, and token and
\* id_token are the ones the login stored.
C14_ExtractionNeverFails ==
    LoginSucceeded /\ PatientClaimOf(answer.access_token) = None
        => /\ patient_ref[last.proc] = None
           /\ token[last.proc] = answer.access_token
           /\ UsesSmartAuth(app) => id_token[last.proc] = answer.id_token
           /\ app = "PatientPortal" => pc[last.proc] = "idle"

\* PatientPortal logged in with a JWT whose payload cannot be decoded
C14_Witness ==
    /\ LoginSucceeded /\ app = "PatientPortal"
    /\ answer.access_token = JwtBad /\ answer.id_token # None
    /\ patient_ref[last.proc] = None /\ pc[last.proc] = "idle"

\* C15: the token request of an attempt carries a code_verifier whose S256
\* challenge is the code_challenge of that attempt's authorization URL, and
\* the redirect_uri of the authorization request.
C15_OwnPkcePair ==
    ExchangeSent
        => /\ body.code_verifier \in Verifiers
           /\ challenge[last.proc] = S256(body.code_verifier)
           /\ body.redirect_uri = RedirectUri

\* C16: the port is bound by a process exactly while its login waits for
\* the redirect; a login that went on to the token request, returned or
\* raised has no socket; and a listener that starts waiting is new, holding
\* no code of an earlier attempt.
C16_PortOnlyWhileWaiting ==
    /\ \A p \in Procs :
          /\ port = p <=> Listening(p)
          /\ Listening(p) => srv[p] = NoReq /\ posts[p] = 0
    /\ (ExchangeSent \/ last.op = "login") => port # last.proc

\* the login of one process raised at the token request, its socket
\* closed, while the other process's listener holds the port
C16_Witness ==
    /\ last.op = "login" /\ last.outcome = "ExchangeFailed"
    /\ port \in Procs \ {last.proc}
    /\ Listening(port)

\* C17: in PatientPortal a session that holds a token has its Logout button
\* enabled, and a Login press answered "Already logged in" leaves the user
\* a Logout button to press.
C17_TokenHolderCanLogout ==
    app = "PatientPortal"
        => /\ \A p \in Procs :
                 (pc[p] = "idle" /\ AlreadyLoggedIn(p)) => LogoutEnabled(p)
           /\ (last.op = "login" /\ last.outcome = "already")
                 => LogoutEnabled(last.proc)

\* the step just taken completed a Login or Logout button press
PressCompleted ==
    /\ last.op \in {"login", "logout"}
    /\ pc[last.proc] = "idle"

\* C18: in SmartFHIRDemo and SmartFHIRDemoV2, after every completed Login
\* or Logout press the status label reads "Logged In" exactly when the app
\* holds an auth object whose token is set.
C18_StatusMatchesSession ==
    app \in {"SmartFHIRDemo", "SmartFHIRDemoV2"} /\ PressCompleted
        => (status[last.proc] = "Logged In"
                <=> (auth[last.proc] /\ token[last.proc] # None))

\* a Login press of a logged-in app whose token request failed
C18_Witness ==
    /\ app \in {"SmartFHIRDemo", "SmartFHIRDemoV2"}
    /\ PressCompleted /\ LoginFailed
    /\ last.pre.token # None
    /\ status[last.proc] # "Logged In"

\* the step just taken was a Patients or Observations press made with no
\* token held
QueryWhileLoggedOut ==
    /\ last.op \in {"patients", "observations"}
    /\ last.pre.token = None

\* C19: a Patients or Observations press made while logged out ends with
\* a message to the user, sends no FHIR request and logs no token, leaves
\* the app running, and changes no session field.
C19_LoggedOutQueryIsInert ==
    QueryWhileLoggedOut
        => /\ last.outcome \in {"login_first", "select_first"}
           /\ pc[last.proc] = "idle"
           /\ emitted = {}
           /\ SessionOf(last.proc) = last.pre

====
